---- MODULE Spec2Model ----
(***************************************************************************)
(* inferno/lib/job_runner.py: execute_rule drives a DAG of rules against   *)
(* the Disco backend.  Sub-rules run in concurrent batches                 *)
(* (_run_concurrent_rules), their output urls are folded into the          *)
(* urls_blackboard, then the top-level rule runs (_run_sequential_rules)   *)
(* and the sub-jobs are purged.                                            *)
(*                                                                         *)
(* Rules are numbered 1..n in flattened order (sub-rules before the rules  *)
(* that use them, the top-level rule last).  A job name is <<rule, stamp>>,*)
(* the model of "<rule name>@<stamp>".                                     *)
(***************************************************************************)
EXTENDS Integers, Sequences, FiniteSets, TLC

\* Largest number of rules of a rule graph (top-level rule included).
MaxRules == 4
\* Largest number of output urls a ready job reports.
MaxUrls == 1
\* Largest number of rules in the check of _get_runable_rules on its own.
MaxCandidates == 3

VARIABLES
    subrules,        \* the rule graph: rule -> set of its direct sub-rules
    all_rules,       \* execute_rule: deduplicate_rules(flatten_rules(rule_))
    urls_blackboard, \* execute_rule: rule -> output urls
    sub_rules,       \* execute_rule: the sub-rules not yet run
    runable_rules,   \* execute_rule: the batch of the current iteration
    inferno_jobs,    \* execute_rule: the sub-jobs to purge in the end
    i,               \* _run_concurrent_rules: position of the start pass in rule_list
    jobs,            \* _run_concurrent_rules: the jobs still polled
    started_jobs,    \* _run_concurrent_rules: its local inferno_jobs
    job_results,     \* _run_concurrent_rules: rule -> output urls of the batch
    stop,            \* _run_concurrent_rules: a dead job was seen
    pc,              \* position of the control thread
    error,           \* the exception that left execute_rule, or NoError
    status,          \* backend: rule -> status of its job
    results,         \* backend: rule -> output urls of its job
    started,         \* history: rule -> number of times a job was started for it
    inputs,          \* history: rule -> urls its job was started with
    killed,          \* history: job names server.kill was called with
    purged,          \* history: rule -> number of times its job was purged
    last_poll,       \* history: the last server.results call of the current batch
    dead_observed,   \* history: rules whose job a poll reported dead
    failed_batch,    \* history: rules of a batch in which a poll reported a dead job
    not_started,     \* history: rules for which job.start() returned None
    comm_error_seen, \* history: a poll of this run raised CommError
    batches          \* history: number of calls of _run_concurrent_rules, up to MaxRules

vars == <<subrules, all_rules, urls_blackboard, sub_rules, runable_rules,
          inferno_jobs, i, jobs, started_jobs, job_results, stop, pc, error,
          status, results, started, inputs, killed, purged, last_poll,
          dead_observed, failed_batch, not_started, comm_error_seen, batches>>

progvars == <<urls_blackboard, sub_rules, runable_rules, inferno_jobs, i, jobs,
              started_jobs, job_results, stop, pc, error>>

histvars == <<started, inputs, killed, purged, last_poll, dead_observed,
              failed_batch, not_started, comm_error_seen, batches>>

-----------------------------------------------------------------------------
(* Helpers on sequences *)

Range(s) == {s[k] : k \in DOMAIN s}

RECURSIVE SortedSeq(_)
SortedSeq(S) ==
    IF S = {} THEN <<>>
    ELSE LET m == CHOOSE x \in S : \A y \in S : x <= y
         IN  <<m>> \o SortedSeq(S \ {m})

RECURSIVE Concat(_)
Concat(ss) == IF ss = <<>> THEN <<>> ELSE Head(ss) \o Concat(Tail(ss))

NoError == [kind |-> "none", rule |-> 0]
NoPoll == [kind |-> "none", jobs |-> <<>>, inactive |-> <<>>, active |-> <<>>]
EmptyMap == [r \in {} |-> <<>>]

-----------------------------------------------------------------------------
(* The rule graph (inferno.lib.rule) *)

\* The rule graphs: finite DAGs over rules 1..n in which every rule but the
\* last is a sub-rule of some later rule, so that flattening the last rule
\* yields all of them.
RuleGraphs ==
    UNION { { g \in [1..n -> SUBSET (1..n)] :
                /\ \A r \in 1..n : g[r] \subseteq 1..(r - 1)
                /\ \A r \in 1..(n - 1) : \E p \in (r + 1)..n : r \in g[p] }
            : n \in 1..MaxRules }

\* extract_subrules(rule): the direct sub-rules, in order.
extract_subrules(rule) == SortedSeq(subrules[rule])

\* deduplicate_rules(flatten_rules(rule_)): every rule once, the top-level
\* rule last.
flatten_rules(g) == [k \in 1..Cardinality(DOMAIN g) |-> k]

-----------------------------------------------------------------------------
(* Job names *)

JobName(rule, stamp) == <<rule, stamp>>

\* _get_rule_name: disco_job_name.rsplit('@')[0]
_get_rule_name(jobname) == jobname[1]

\* The output urls a job of a rule can report.
Url(rule, k) == rule * 10 + k
JobOutputs(rule) == { [k \in 1..len |-> Url(rule, k)] : len \in 1..MaxUrls }

-----------------------------------------------------------------------------
(* Pure parts of the code *)

\* A slip in lines 36 and 80: `urls =` for `urls +=`, the last sub-rule wins.
ResolveUrlsLastOnly(rule, blackboard) ==
    LET subs == extract_subrules(rule)
    IN  IF subs = <<>> THEN <<>> ELSE blackboard[subs[Len(subs)]]

\* lines 34-36 and 78-80: the urls a rule is started with.
ResolveUrls(rule, blackboard) ==
    LET subs == extract_subrules(rule)
    IN  Concat([k \in 1..Len(subs) |-> blackboard[subs[k]]])

\* blackboard.get(name, None): None is modelled by the empty sequence, which
\* `not` treats alike.
Get(blackboard, name) ==
    IF name \in DOMAIN blackboard THEN blackboard[name] ELSE <<>>

\* lines 99-102: the loop over the sub-rules, left at the first one without urls.
RECURSIVE ReadyLoop(_, _)
ReadyLoop(subs, blackboard) ==
    IF subs = <<>> THEN TRUE
    ELSE IF Len(Get(blackboard, Head(subs))) = 0 THEN FALSE
    ELSE ReadyLoop(Tail(subs), blackboard)

\* A slip in line 100: the entry is only looked up, its urls are not tested.
IsReadyKeyOnly(rule, blackboard) ==
    \A s \in Range(extract_subrules(rule)) : s \in DOMAIN blackboard

\* A slip in lines 99-102: the loop is left after the first sub-rule, whatever
\* its entry.
IsReadyFirstOnly(rule, blackboard) ==
    LET subs == extract_subrules(rule)
    IN  subs = <<>> \/ Len(Get(blackboard, Head(subs))) # 0

\* lines 98-103: the ready flag of a rule.
IsReady(rule, blackboard) == ReadyLoop(extract_subrules(rule), blackboard)

\* A slip in lines 103-106: the function returns at the first ready rule.
_get_runable_rules_first(rules, blackboard) ==
    LET ready == SelectSeq(rules, LAMBDA rule : IsReady(rule, blackboard))
    IN  IF ready = <<>> THEN <<>> ELSE <<Head(ready)>>

\* lines 95-106
_get_runable_rules(rules, blackboard) ==
    SelectSeq(rules, LAMBDA rule : IsReady(rule, blackboard))

\* A slip in line 127: only the last rule of the batch is removed.
RemoveRunLastOnly(rules, run) ==
    SelectSeq(rules, LAMBDA rule : run = <<>> \/ rule # run[Len(run)])

\* line 127
RemoveRun(rules, run) == SelectSeq(rules, LAMBDA rule : rule \notin Range(run))

\* A slip in line 118: the loop stops with one sub-rule left.
LoopConditionOffByOne(rules) == Len(rules) > 1

\* line 118: while sub_rules
LoopCondition(rules) == rules # <<>>

\* A slip in lines 125-126: the blackboard is replaced by the batch results.
FoldResultsReplace(blackboard, ret) ==
    [r \in DOMAIN blackboard |-> IF r \in DOMAIN ret THEN ret[r] ELSE <<>>]

\* lines 125-126
FoldResults(blackboard, ret) ==
    [r \in DOMAIN blackboard |-> IF r \in DOMAIN ret THEN ret[r] ELSE blackboard[r]]

-----------------------------------------------------------------------------
Init ==
    /\ subrules \in RuleGraphs
    /\ all_rules = flatten_rules(subrules)
    /\ urls_blackboard = [r \in Range(all_rules) |-> <<>>]
    /\ sub_rules = SubSeq(all_rules, 1, Len(all_rules) - 1)
    /\ runable_rules = <<>>
    /\ inferno_jobs = <<>>
    /\ i = 1
    /\ jobs = <<>>
    /\ started_jobs = <<>>
    /\ job_results = EmptyMap
    /\ stop = FALSE
    /\ pc = "loop"
    /\ error = NoError
    /\ status = [r \in Range(all_rules) |-> "none"]
    /\ results = [r \in Range(all_rules) |-> <<>>]
    /\ started = [r \in Range(all_rules) |-> 0]
    /\ inputs = [r \in Range(all_rules) |-> <<>>]
    /\ killed = {}
    /\ purged = [r \in Range(all_rules) |-> 0]
    /\ last_poll = NoPoll
    /\ dead_observed = {}
    /\ failed_batch = {}
    /\ not_started = {}
    /\ comm_error_seen = FALSE
    /\ batches = 0

\* all_rules[-1:]
parent == SubSeq(all_rules, Len(all_rules), Len(all_rules))
Terminal == all_rules[Len(all_rules)]

-----------------------------------------------------------------------------
(* The backend (Disco) *)

\* A running job finishes: active -> ready with its output urls, or active -> dead.
JobFinish(rule) ==
    /\ rule \in DOMAIN status
    /\ status[rule] = "active"
    /\ \/ \E out \in JobOutputs(rule) :
            /\ status' = [status EXCEPT ![rule] = "ready"]
            /\ results' = [results EXCEPT ![rule] = out]
       \/ /\ status' = [status EXCEPT ![rule] = "dead"]
          /\ UNCHANGED results
    /\ UNCHANGED <<subrules, all_rules, progvars, histvars>>

\* server.kill(jobname): a running job dies, a finished one is left as it is.
Kill(st, jobname) ==
    [st EXCEPT ![_get_rule_name(jobname)] = IF @ = "active" THEN "dead" ELSE @]

\* server.results(jobs, 5000): the jobs that left `active`, with status and
\* results, and the jobs still active.
Inactive(js) ==
    LET done == SelectSeq(js, LAMBDA j : status[_get_rule_name(j)] # "active")
    IN  [k \in 1..Len(done) |->
            <<done[k], <<status[_get_rule_name(done[k])],
                         results[_get_rule_name(done[k])]>> >>]

Active(js) == SelectSeq(js, LAMBDA j : status[_get_rule_name(j)] = "active")

-----------------------------------------------------------------------------
(* _start_job, lines 7-15: (InfernoJob, DiscoJob), the DiscoJob None when the *)
(* job fails to start.                                                       *)

StartOk(rule, urls) ==
    /\ status' = [status EXCEPT ![rule] = "active"]
    /\ results' = [results EXCEPT ![rule] = <<>>]
    /\ started' = [started EXCEPT ![rule] = @ + 1]
    /\ inputs' = [inputs EXCEPT ![rule] = urls]
    /\ UNCHANGED not_started

StartNone(rule) ==
    /\ not_started' = not_started \cup {rule}
    /\ UNCHANGED <<status, results, started, inputs>>

-----------------------------------------------------------------------------
(* _run_concurrent_rules *)

\* A slip in lines 122-123: the exception of the batch is caught and the loop
\* goes on.
PropagateRetries(e) ==
    /\ pc' = "loop"
    /\ error' = e

\* lines 122-123: the exception of _run_concurrent_rules is raised again and
\* leaves execute_rule.
Propagate(e) ==
    /\ pc' = "raised"
    /\ error' = e

\* lines 38-40: the job started.
JobStarted(rule) ==
    /\ jobs' = Append(jobs, JobName(rule, started[rule] + 1))
    /\ started_jobs' = Append(started_jobs, JobName(rule, started[rule] + 1))
    /\ i' = i + 1
    /\ UNCHANGED <<pc, error, killed>>

\* A slip in lines 41-42: the rule that did not start is skipped.
JobNotStartedSkipped(rule) ==
    /\ i' = i + 1
    /\ UNCHANGED <<pc, error, jobs, started_jobs, killed>>

\* lines 41-42: raise Exception('There is not enough blobs to run %s' % rule.name)
JobNotStarted(rule) ==
    /\ Propagate([kind |-> "InsufficientInputs", rule |-> rule])
    /\ UNCHANGED <<jobs, started_jobs, i, killed>>

\* lines 33-42: one iteration of the start pass.
StartJob ==
    /\ pc = "start"
    /\ i <= Len(runable_rules)
    /\ LET rule == runable_rules[i]
           urls == ResolveUrls(rule, urls_blackboard)
       IN  \/ StartOk(rule, urls) /\ JobStarted(rule)
           \/ StartNone(rule) /\ JobNotStarted(rule)
    /\ UNCHANGED <<subrules, all_rules, urls_blackboard, sub_rules, runable_rules,
                   inferno_jobs, job_results, stop, purged, last_poll,
                   dead_observed, failed_batch, comm_error_seen,
                   batches>>

\* A slip in line 47: `while job_results` for `while jobs`, the loop is never
\* entered.
EnterPollNoWait ==
    /\ pc = "start"
    /\ i > Len(runable_rules)
    /\ job_results' = EmptyMap
    /\ stop' = FALSE
    /\ pc' = "after"
    /\ UNCHANGED <<subrules, all_rules, urls_blackboard, sub_rules, runable_rules,
                   inferno_jobs, i, jobs, started_jobs, error, status, results,
                   histvars>>

\* lines 44-47: the start pass is over.
EnterPoll ==
    /\ pc = "start"
    /\ i > Len(runable_rules)
    /\ job_results' = EmptyMap
    /\ stop' = FALSE
    /\ pc' = IF jobs # <<>> THEN "poll" ELSE "after"
    /\ UNCHANGED <<subrules, all_rules, urls_blackboard, sub_rules, runable_rules,
                   inferno_jobs, i, jobs, started_jobs, error, status, results,
                   histvars>>

\* lines 53-57: the batch results after a poll.
RecordResults(res, inactive) ==
    LET ready == {k \in DOMAIN inactive : inactive[k][2][1] = "ready"}
        names == {_get_rule_name(inactive[k][1]) : k \in ready}
    IN  [r \in DOMAIN res \cup names |->
            IF r \in names
            THEN LET k == CHOOSE k \in ready : _get_rule_name(inactive[k][1]) = r
                 IN  inactive[k][2][2]
            ELSE res[r]]

\* lines 56-57: the abort flag after a poll.
SeesDead(inactive) == \E k \in DOMAIN inactive : inactive[k][2][1] = "dead"

\* A slip in lines 53-55: the urls of a ready job are written to the blackboard
\* as soon as a poll reports them.
PollOkWritesBlackboard ==
    /\ pc = "poll"
    /\ LET inactive == Inactive(jobs)
           active == Active(jobs)
           dead == {_get_rule_name(inactive[k][1]) :
                        k \in {k \in DOMAIN inactive : inactive[k][2][1] = "dead"}}
       IN  /\ job_results' = RecordResults(job_results, inactive)
           /\ urls_blackboard' = FoldResults(urls_blackboard, job_results')
           /\ stop' = (stop \/ SeesDead(inactive))
           /\ jobs' = active
           /\ pc' = IF stop' \/ jobs' = <<>> THEN "after" ELSE "poll"
           /\ last_poll' = [kind |-> "ok", jobs |-> jobs,
                            inactive |-> inactive, active |-> active]
           /\ dead_observed' = dead_observed \cup dead
           /\ failed_batch' = IF dead # {} THEN failed_batch \cup Range(runable_rules)
                              ELSE failed_batch
    /\ UNCHANGED <<subrules, all_rules, sub_rules, runable_rules,
                   inferno_jobs, i, started_jobs, error, status, results,
                   started, inputs, killed, purged, not_started, comm_error_seen,
                   batches>>

\* lines 47-60: a poll that answers.
PollOk ==
    /\ pc = "poll"
    /\ LET inactive == Inactive(jobs)
           active == Active(jobs)
           dead == {_get_rule_name(inactive[k][1]) :
                        k \in {k \in DOMAIN inactive : inactive[k][2][1] = "dead"}}
       IN  /\ job_results' = RecordResults(job_results, inactive)
           /\ stop' = (stop \/ SeesDead(inactive))
           /\ jobs' = active
           /\ pc' = IF stop' \/ jobs' = <<>> THEN "after" ELSE "poll"
           /\ last_poll' = [kind |-> "ok", jobs |-> jobs,
                            inactive |-> inactive, active |-> active]
           /\ dead_observed' = dead_observed \cup dead
           /\ failed_batch' = IF dead # {} THEN failed_batch \cup Range(runable_rules)
                              ELSE failed_batch
    /\ UNCHANGED <<subrules, all_rules, urls_blackboard, sub_rules, runable_rules,
                   inferno_jobs, i, started_jobs, error, status, results,
                   started, inputs, killed, purged, not_started, comm_error_seen,
                   batches>>

\* A slip in lines 50-52: the CommError is not caught.
PollCommErrorUncaught ==
    /\ pc = "poll"
    /\ last_poll' = [kind |-> "CommError", jobs |-> jobs,
                     inactive |-> <<>>, active |-> <<>>]
    /\ comm_error_seen' = TRUE
    /\ pc' = "raised"
    /\ error' = [kind |-> "CommError", rule |-> 0]
    /\ UNCHANGED <<subrules, all_rules, urls_blackboard, sub_rules, runable_rules,
                   inferno_jobs, i, jobs, started_jobs, job_results, stop,
                   status, results, started, inputs, killed, purged,
                   dead_observed, failed_batch, not_started, batches>>

\* lines 50-52: except CommError: continue
PollCommError ==
    /\ pc = "poll"
    /\ last_poll' = [kind |-> "CommError", jobs |-> jobs,
                     inactive |-> <<>>, active |-> <<>>]
    /\ comm_error_seen' = TRUE
    /\ UNCHANGED <<subrules, all_rules, progvars, status, results, started, inputs,
                   killed, purged, dead_observed, failed_batch, not_started, batches>>

\* lines 62-65: the first iteration of the kill loop kills one job and raises.
AbortBatch ==
    /\ pc = "after"
    /\ stop
    /\ jobs # <<>>
    /\ killed' = killed \cup {Head(jobs)}
    /\ status' = Kill(status, Head(jobs))
    /\ Propagate([kind |-> "JobFailed", rule |-> 0])
    /\ UNCHANGED <<subrules, all_rules, urls_blackboard, sub_rules, runable_rules,
                   inferno_jobs, i, jobs, started_jobs, job_results, stop, results,
                   started, inputs, purged, last_poll, dead_observed,
                   failed_batch, not_started, comm_error_seen,
                   batches>>

\* lines 62-67: the kill loop has nothing to iterate over, or stop is unset:
\* return inferno_jobs, job_results
ReturnBatch ==
    /\ pc = "after"
    /\ ~(stop /\ jobs # <<>>)
    /\ pc' = "fold"
    /\ UNCHANGED <<subrules, all_rules, urls_blackboard, sub_rules, runable_rules,
                   inferno_jobs, i, jobs, started_jobs, job_results, stop, error,
                   status, results, histvars>>

-----------------------------------------------------------------------------
(* execute_rule *)

\* lines 118-121 and 31-32: the loop goes on, the batch is computed and handed
\* to _run_concurrent_rules.
GetRunable ==
    /\ pc = "loop"
    /\ LoopCondition(sub_rules)
    /\ runable_rules' = _get_runable_rules(sub_rules, urls_blackboard)
    /\ jobs' = <<>>
    /\ started_jobs' = <<>>
    /\ i' = 1
    /\ job_results' = EmptyMap
    /\ stop' = FALSE
    /\ last_poll' = NoPoll
    /\ pc' = "start"
    /\ batches' = IF batches < MaxRules THEN batches + 1 ELSE batches
    /\ UNCHANGED <<subrules, all_rules, urls_blackboard, sub_rules, inferno_jobs,
                   error, status, results, started, inputs, killed, purged,
                   dead_observed, failed_batch, not_started, comm_error_seen>>

\* lines 124-127
Fold ==
    /\ pc = "fold"
    /\ inferno_jobs' = inferno_jobs \o started_jobs
    /\ urls_blackboard' = FoldResults(urls_blackboard, job_results)
    /\ sub_rules' = RemoveRun(sub_rules, runable_rules)
    /\ pc' = "loop"
    /\ UNCHANGED <<subrules, all_rules, runable_rules, i, jobs, started_jobs,
                   job_results, stop, error, status, results, histvars>>

\* lines 118, 130 and 77-85: the loop is over, the top-level rule is started.
StartParent ==
    /\ pc = "loop"
    /\ ~LoopCondition(sub_rules)
    /\ LET rule == parent[1]
           urls == ResolveUrls(rule, urls_blackboard)
       IN  \/ /\ StartOk(rule, urls)
              /\ pc' = "wait"
              /\ UNCHANGED error
           \/ /\ StartNone(rule)
              /\ pc' = "raised"
              /\ error' = [kind |-> "InsufficientInputs", rule |-> rule]
    /\ UNCHANGED <<subrules, all_rules, urls_blackboard, sub_rules, runable_rules,
                   inferno_jobs, i, jobs, started_jobs, job_results, stop,
                   killed, purged, last_poll, dead_observed, failed_batch,
                   comm_error_seen, batches>>

\* line 83: job.wait() blocks until the job of the top-level rule has finished;
\* for a dead job it returns or raises.
Wait ==
    /\ pc = "wait"
    /\ status[Terminal] # "active"
    /\ \/ /\ pc' = "purge"
          /\ UNCHANGED error
       \/ /\ status[Terminal] = "dead"
          /\ pc' = "raised"
          /\ error' = [kind |-> "JobFailed", rule |-> Terminal]
    /\ UNCHANGED <<subrules, all_rules, urls_blackboard, sub_rules, runable_rules,
                   inferno_jobs, i, jobs, started_jobs, job_results, stop,
                   status, results, histvars>>

\* A slip in line 124: `inferno_jobs = jobs` for `inferno_jobs += jobs`, only
\* the jobs of the last batch are purged.
PurgeLastBatch ==
    /\ pc = "purge"
    /\ purged' = [r \in DOMAIN purged |->
                    purged[r] + Cardinality({k \in DOMAIN started_jobs :
                                                _get_rule_name(started_jobs[k]) = r})]
    /\ pc' = "returned"
    /\ UNCHANGED <<subrules, all_rules, urls_blackboard, sub_rules, runable_rules,
                   inferno_jobs, i, jobs, started_jobs, job_results, stop, error,
                   status, results, started, inputs, killed, last_poll,
                   dead_observed, failed_batch, not_started, comm_error_seen,
                   batches>>

\* lines 132-133: every collected sub-job is purged.
Purge ==
    /\ pc = "purge"
    /\ purged' = [r \in DOMAIN purged |->
                    purged[r] + Cardinality({k \in DOMAIN inferno_jobs :
                                                _get_rule_name(inferno_jobs[k]) = r})]
    /\ pc' = "returned"
    /\ UNCHANGED <<subrules, all_rules, urls_blackboard, sub_rules, runable_rules,
                   inferno_jobs, i, jobs, started_jobs, job_results, stop, error,
                   status, results, started, inputs, killed, last_poll,
                   dead_observed, failed_batch, not_started, comm_error_seen,
                   batches>>

-----------------------------------------------------------------------------
Backend == \E rule \in Range(all_rules) : JobFinish(rule)

Next ==
    \/ GetRunable
    \/ StartJob
    \/ EnterPoll
    \/ PollOk
    \/ PollCommError
    \/ AbortBatch
    \/ ReturnBatch
    \/ Fold
    \/ StartParent
    \/ Wait
    \/ Purge
    \/ Backend

Spec == Init /\ [][Next]_vars

TypeOK ==
    /\ pc \in {"loop", "start", "poll", "after", "fold", "wait", "purge",
               "returned", "raised"}
    /\ \A r \in Range(all_rules) : status[r] \in {"none", "active", "ready", "dead"}
    /\ Range(sub_rules) \subseteq Range(all_rules)

-----------------------------------------------------------------------------
(* _get_runable_rules on its own: any candidate list, any blackboard *)

\* The rule graphs of the check: every DAG over 1..n, sub-rules before users.
CandidateGraphs ==
    UNION { { g \in [1..n -> SUBSET (1..n)] :
                \A r \in 1..n : g[r] \subseteq 1..(r - 1) }
            : n \in 1..MaxCandidates }

\* The candidate lists: the rules of a subset, in any order.
RECURSIVE Perms(_)
Perms(S) ==
    IF S = {} THEN {<<>>}
    ELSE UNION { { <<x>> \o p : p \in Perms(S \ {x}) } : x \in S }

\* The blackboards: an entry may be absent, empty or hold urls.
Blackboards(rules) ==
    UNION { [D -> {<<>>, <<1>>, <<1, 2>>}] : D \in SUBSET rules }

ReadyInit ==
    /\ subrules \in CandidateGraphs
    /\ all_rules = flatten_rules(subrules)
    /\ urls_blackboard \in Blackboards(DOMAIN subrules)
    /\ sub_rules \in UNION { Perms(S) : S \in SUBSET (DOMAIN subrules) }
    /\ runable_rules = <<>>
    /\ inferno_jobs = <<>>
    /\ i = 1
    /\ jobs = <<>>
    /\ started_jobs = <<>>
    /\ job_results = EmptyMap
    /\ stop = FALSE
    /\ pc = "ready_call"
    /\ error = NoError
    /\ status = [r \in Range(all_rules) |-> "none"]
    /\ results = [r \in Range(all_rules) |-> <<>>]
    /\ started = [r \in Range(all_rules) |-> 0]
    /\ inputs = [r \in Range(all_rules) |-> <<>>]
    /\ killed = {}
    /\ purged = [r \in Range(all_rules) |-> 0]
    /\ last_poll = NoPoll
    /\ dead_observed = {}
    /\ failed_batch = {}
    /\ not_started = {}
    /\ comm_error_seen = FALSE
    /\ batches = 0

\* line 119: runable_rules = _get_runable_rules(sub_rules, urls_blackboard)
ReadyCall ==
    /\ pc = "ready_call"
    /\ runable_rules' = _get_runable_rules(sub_rules, urls_blackboard)
    /\ pc' = "ready_done"
    /\ UNCHANGED <<subrules, all_rules, urls_blackboard, sub_rules, inferno_jobs,
                   i, jobs, started_jobs, job_results, stop, error, status,
                   results, histvars>>

ReadyNext == ReadyCall

ReadySpec == ReadyInit /\ [][ReadyNext]_vars

\* The control thread: every step of execute_rule but the polls.
Control ==
    \/ GetRunable
    \/ StartJob
    \/ EnterPoll
    \/ AbortBatch
    \/ ReturnBatch
    \/ Fold
    \/ StartParent
    \/ Wait
    \/ Purge

\* A fair backend: the control thread runs, every started job finishes, and
\* polls do not fail with CommError forever.
FairSpec == Spec /\ WF_vars(Control) /\ WF_vars(Backend) /\ WF_vars(PollOk)

-----------------------------------------------------------------------------
(* Properties *)

RuleOf(jobname) == jobname[1]
SubRules == Range(all_rules) \ {Terminal}

\* C1: a batch in which a poll reported a dead job leaves no output urls in the
\* blackboard, and _run_concurrent_rules returns only when every job it started
\* is ready.
C1_DeadJobFailsBatch ==
    /\ \A r \in failed_batch : urls_blackboard[r] = <<>>
    /\ pc = "fold" =>
          \A k \in DOMAIN started_jobs : status[RuleOf(started_jobs[k])] = "ready"

\* C2: once a poll has reported a dead sub-rule job, the top-level rule is never
\* started and execute_rule does not return.
C2_DeadJobStopsRun ==
    dead_observed # {} => (started[Terminal] = 0 /\ pc # "returned")

\* C3: once a poll has reported a dead job and _run_concurrent_rules has been
\* left, server.kill has been called for every job that poll reported active.
C3_AllActiveKilled ==
    (SeesDead(last_poll.inactive) /\ pc # "after") =>
        \A k \in DOMAIN last_poll.active : last_poll.active[k] \in killed

\* C4: under a fair backend execute_rule eventually returns or raises.
C4_Terminates == <>(pc \in {"returned", "raised"})

\* C5: a job is started for a rule only when every direct sub-rule of the rule
\* has a non-empty entry in the blackboard.
C5_StartedWhenReady ==
    [][\A r \in Range(all_rules) :
          started'[r] > started[r] =>
              \A s \in subrules[r] : urls_blackboard[s] # <<>>]_vars

\* C6: no rule is started more than once, and when execute_rule returns every
\* rule of the flattened graph has been started exactly once.
C6_StartedOnce ==
    /\ \A r \in Range(all_rules) : started[r] <= 1
    /\ pc = "returned" => \A r \in Range(all_rules) : started[r] = 1

\* A run returned in which a sub-rule shared by two rules was started once.
C6_Witness ==
    /\ pc = "returned"
    /\ \E r \in SubRules :
          /\ Cardinality({p \in Range(all_rules) : r \in subrules[p]}) >= 2
          /\ started[r] = 1

\* C7: when the top-level rule is started every other rule has been started and
\* its job is no longer active, and no sub-rule is started once the top-level
\* rule has been started.
C7_TerminalLast ==
    [][/\ started'[Terminal] > 0 =>
            \A r \in SubRules : started'[r] > 0 /\ status'[r] \in {"ready", "dead"}
       /\ started[Terminal] > 0 =>
            \A r \in SubRules : started'[r] = started[r]]_vars

\* The top-level rule of a graph of at least three rules is running.
C7_Witness ==
    /\ Len(all_rules) >= 3
    /\ started[Terminal] = 1
    /\ status[Terminal] = "active"

\* C8: a poll that raises CommError changes no job status, no batch result, no
\* abort flag, kills nothing and raises nothing; the poll after it is issued for
\* the same jobs.
C8_CommErrorIsRetried ==
    [][/\ (last_poll'.kind = "CommError" /\ last_poll' # last_poll) =>
             /\ UNCHANGED <<status, results, job_results, stop, killed, jobs,
                            urls_blackboard, error>>
             /\ pc' = "poll"
       /\ (last_poll.kind = "CommError" /\ last_poll' # last_poll) =>
             /\ last_poll'.kind = "ok"
             /\ last_poll'.jobs = last_poll.jobs
       /\ error'.kind # "CommError"]_vars

\* A run returned although one of its polls raised CommError.
C8_Witness ==
    /\ comm_error_seen
    /\ pc = "returned"

\* C9: when a rule of a batch does not start, _run_concurrent_rules raises an
\* error naming the rule at once: the step starts nothing, no poll has been
\* issued for the batch, nothing is folded, and from then on no job is started
\* and the blackboard stays as it is.
C9_NotStartedAborts ==
    [][not_started' # {} =>
          /\ pc' = "raised"
          /\ error'.kind = "InsufficientInputs"
          /\ not_started' = {error'.rule}
          /\ UNCHANGED <<urls_blackboard, started, sub_rules, inferno_jobs, killed>>
          /\ error'.rule # Terminal =>
                /\ error'.rule = runable_rules'[i']
                /\ last_poll' = NoPoll
                /\ job_results' = EmptyMap
                /\ started'[Terminal] = 0
                /\ \A k \in (i' + 1)..Len(runable_rules') :
                      started'[runable_rules'[k]] = 0]_vars

\* The second rule of a batch of three did not start.
C9_Witness ==
    /\ pc = "raised"
    /\ error.kind = "InsufficientInputs"
    /\ error.rule # Terminal
    /\ i = 2
    /\ Len(runable_rules) = 3
    /\ started[runable_rules[1]] = 1

\* C10: when a rule of a batch does not start, every job of the batch started
\* before it has been killed when the error leaves execute_rule.
C10_StartedJobsKilled ==
    (pc = "raised" /\ error.kind = "InsufficientInputs" /\ error.rule # Terminal) =>
        \A k \in DOMAIN started_jobs : started_jobs[k] \in killed

\* Every direct sub-rule of the rule has a non-empty entry in the blackboard.
HasAllInputs(rule, blackboard) ==
    \A s \in subrules[rule] : s \in DOMAIN blackboard /\ blackboard[s] # <<>>

\* C11: _get_runable_rules returns exactly the candidates whose direct sub-rules
\* all have a non-empty entry in the blackboard, each as often as it is listed
\* and in the order of the list, and changes neither the blackboard nor the
\* candidate list.
C11_RunableExact ==
    [][pc' = "ready_done" =>
          /\ \A k \in DOMAIN runable_rules' :
                /\ runable_rules'[k] \in Range(sub_rules)
                /\ HasAllInputs(runable_rules'[k], urls_blackboard)
          /\ \A k \in DOMAIN sub_rules :
                HasAllInputs(sub_rules[k], urls_blackboard) =>
                    sub_rules[k] \in Range(runable_rules')
          /\ \A k \in DOMAIN sub_rules :
                subrules[sub_rules[k]] = {} => sub_rules[k] \in Range(runable_rules')
          /\ Len(runable_rules') =
                Cardinality({k \in DOMAIN sub_rules :
                                HasAllInputs(sub_rules[k], urls_blackboard)})
          /\ \A k, l \in DOMAIN runable_rules' :
                k < l => \E m, n \in DOMAIN sub_rules :
                            /\ m < n
                            /\ sub_rules[m] = runable_rules'[k]
                            /\ sub_rules[n] = runable_rules'[l]
          /\ UNCHANGED <<urls_blackboard, sub_rules>>]_vars

\* The call returned a rule without sub-rules and left out a rule with one
\* empty and one absent sub-rule entry, on a blackboard that also holds urls.
C11_Witness ==
    /\ pc = "ready_done"
    /\ \E r \in Range(runable_rules) : subrules[r] = {}
    /\ \E r \in Range(sub_rules) \ Range(runable_rules) :
          /\ \E s \in subrules[r] : s \notin DOMAIN urls_blackboard
          /\ \E s \in subrules[r] :
                s \in DOMAIN urls_blackboard /\ urls_blackboard[s] = <<>>
    /\ \E r \in DOMAIN urls_blackboard : urls_blackboard[r] # <<>>

\* C12: a blackboard entry is non-empty only for a rule whose job is ready, it
\* then holds the output urls of that job, and a non-empty entry never changes.
C12_WriteOnce ==
    [][\A r \in Range(all_rules) :
          /\ urls_blackboard'[r] # <<>> =>
                (status'[r] = "ready" /\ urls_blackboard'[r] = results'[r])
          /\ urls_blackboard[r] # <<>> => urls_blackboard'[r] = urls_blackboard[r]]_vars

\* The results of two successive batches are in the blackboard.
C12_Witness ==
    \E r, q \in SubRules :
        /\ r \in subrules[q]
        /\ urls_blackboard[r] # <<>>
        /\ urls_blackboard[q] # <<>>

\* The number of urls the first k sub-rules of a list hold in the blackboard.
RECURSIVE UrlsBefore(_, _, _)
UrlsBefore(subs, blackboard, k) ==
    IF k = 0 THEN 0
    ELSE UrlsBefore(subs, blackboard, k - 1) + Len(blackboard[subs[k]])

\* C13: a job is started with the blackboard entries of the rule's direct
\* sub-rules, one after the other in the order of the sub-rules; in the graph
\* C <- {A, B} with A -> [a1] and B -> [b1], C is started with [a1, b1].
C13_InputsConcatenated ==
    [][\A r \in Range(all_rules) :
          started'[r] > started[r] =>
              LET subs == extract_subrules(r)
              IN  /\ Len(inputs'[r]) = UrlsBefore(subs, urls_blackboard, Len(subs))
                  /\ \A k \in DOMAIN subs :
                        \A j \in DOMAIN urls_blackboard[subs[k]] :
                            inputs'[r][UrlsBefore(subs, urls_blackboard, k - 1) + j]
                                = urls_blackboard[subs[k]][j]
                  /\ (/\ subrules = <<{}, {}, {1, 2}>>
                      /\ r = 3
                      /\ urls_blackboard[1] = <<Url(1, 1)>>
                      /\ urls_blackboard[2] = <<Url(2, 1)>>)
                        => inputs'[r] = <<Url(1, 1), Url(2, 1)>>]_vars

\* C <- {A, B}: C was started with [a1, b1].
C13_Witness ==
    /\ subrules = <<{}, {}, {1, 2}>>
    /\ started[3] = 1
    /\ inputs[3] = <<Url(1, 1), Url(2, 1)>>

\* C14: a sub-rule job is started only when no job of an earlier batch is
\* active, and when the ready set of a batch is computed every ready job of the
\* earlier batches has its urls in the blackboard.
C14_BatchesDoNotOverlap ==
    [][/\ \A r \in SubRules :
             started'[r] > started[r] =>
                 \A q \in Range(all_rules) \ Range(runable_rules) :
                     status[q] # "active"
       /\ (pc = "loop" /\ pc' = "start") =>
             \A q \in SubRules \ Range(sub_rules) :
                 /\ status[q] # "active"
                 /\ status[q] = "ready" => urls_blackboard[q] = results[q]]_vars

\* A job of a second batch is running.
C14_Witness ==
    \E r \in SubRules : subrules[r] # {} /\ status[r] = "active"

\* C15: the blackboard changes only in the fold of a batch that returned, and
\* only in the entries of that batch's results; no step of
\* _run_concurrent_rules or _run_sequential_rules changes it.
C15_OnlyFoldWrites ==
    [][urls_blackboard' # urls_blackboard =>
          /\ pc = "fold"
          /\ pc' = "loop"
          /\ \A r \in Range(all_rules) :
                urls_blackboard'[r] # urls_blackboard[r] =>
                    /\ r \in DOMAIN job_results
                    /\ r \in Range(runable_rules)
                    /\ urls_blackboard'[r] = job_results[r]]_vars

\* A second batch holds results that are not in the blackboard yet.
C15_Witness ==
    /\ pc \in {"poll", "after"}
    /\ \E r \in DOMAIN job_results : urls_blackboard[r] = <<>>
    /\ \E q \in SubRules : urls_blackboard[q] # <<>>

\* _run_concurrent_rules has raised: for a rule that did not start or for a
\* dead job.
CoordinatorFailed(e) == e.kind # "none" /\ e.rule # Terminal

\* C16: once _run_concurrent_rules has raised, execute_rule has raised the same
\* error, and from then on no job is started, no batch is computed, nothing is
\* folded and the top-level rule stays unstarted.
C16_FailureEndsRun ==
    [][/\ CoordinatorFailed(error') =>
             /\ pc' = "raised"
             /\ started'[Terminal] = 0
       /\ CoordinatorFailed(error) =>
             UNCHANGED <<started, runable_rules, sub_rules, urls_blackboard,
                         inferno_jobs, last_poll, error, pc>>]_vars

\* A batch failed for a dead job while sub-rules of a later batch were pending.
C16_Witness ==
    /\ pc = "raised"
    /\ error.kind = "JobFailed"
    /\ error.rule = 0
    /\ Len(sub_rules) > Len(runable_rules)

\* C17: when execute_rule returns, every sub-rule job started in the run has
\* been purged exactly once; no job is purged more than once, and none before
\* the top-level rule's job was started and its wait has returned.
C17_PurgedOnceAfterWait ==
    /\ pc = "returned" =>
          \A r \in SubRules : started[r] > 0 /\ purged[r] = started[r]
    /\ \A r \in Range(all_rules) :
          /\ purged[r] <= 1
          /\ purged[r] > 0 =>
                /\ started[Terminal] = 1
                /\ status[Terminal] # "active"
                /\ pc = "returned"

\* A run of two batches returned with its three sub-rule jobs purged.
C17_Witness ==
    /\ pc = "returned"
    /\ Len(inferno_jobs) = 3
    /\ \E r \in SubRules : subrules[r] # {} /\ purged[r] = 1
    /\ \E r \in SubRules : subrules[r] = {} /\ purged[r] = 1

\* C18: when execute_rule has raised for a failed batch, every sub-rule job
\* started in the run, in an earlier batch or in the failed one, has been purged.
C18_ReleasedOnFailure ==
    (pc = "raised" /\ CoordinatorFailed(error)) =>
        \A r \in SubRules : started[r] > 0 => purged[r] > 0

\* The direct and transitive sub-rules of a rule.
RECURSIVE TransSubRules(_)
TransSubRules(rule) ==
    subrules[rule] \cup UNION {TransSubRules(s) : s \in subrules[rule]}

\* C19: in a batch handed to _run_concurrent_rules no rule is listed twice, no
\* rule is a direct or transitive sub-rule of another rule of the batch, and no
\* rule has had a job started before.
C19_BatchIndependent ==
    [][(pc = "loop" /\ pc' = "start") =>
          /\ \A k, l \in DOMAIN runable_rules' :
                k # l => runable_rules'[k] # runable_rules'[l]
          /\ \A r, q \in Range(runable_rules') : r \notin TransSubRules(q)
          /\ \A r \in Range(runable_rules') :
                /\ started[r] = 0
                /\ r \in SubRules]_vars

\* A second batch of two rules has been handed over.
C19_Witness ==
    /\ pc = "start"
    /\ Len(runable_rules) = 2
    /\ \A r \in Range(runable_rules) : subrules[r] # {}

\* The length of the longest path from a rule down to a rule without sub-rules.
RECURSIVE Height(_)
Height(rule) ==
    IF subrules[rule] = {} THEN 0
    ELSE LET hs == {Height(s) : s \in subrules[rule]}
         IN  1 + CHOOSE h \in hs : \A g \in hs : g <= h

\* One plus the largest height of a sub-rule; zero without sub-rules.
Levels ==
    IF SubRules = {} THEN 0
    ELSE LET hs == {Height(r) : r \in SubRules}
         IN  1 + CHOOSE h \in hs : \A g \in hs : g <= h

\* Every job so far started and no poll reported a dead job.
AllReadySoFar == dead_observed = {} /\ not_started = {}

\* C20: while every job becomes ready, a sub-rule of height h is started in
\* call h + 1 of _run_concurrent_rules, and the top-level rule is started after
\* one call more than the largest height of a sub-rule (none for a single rule).
C20_LevelByLevel ==
    [][AllReadySoFar =>
          /\ \A r \in SubRules :
                started'[r] > started[r] => batches = Height(r) + 1
          /\ started'[Terminal] > started[Terminal] => batches = Levels]_vars

\* The top-level rule of a chain of four rules was started after three calls.
C20_Witness ==
    /\ AllReadySoFar
    /\ started[Terminal] = 1
    /\ Levels = 3
    /\ batches = 3

====
